---- MODULE Spec2Model ----
(***************************************************************************)
(* Model of the IMV attestation state object                              *)
(* (src/libimcv/plugins/imv_attestation/imv_attestation_state.c) and of    *)
(* transaction_create (src/charon/sa/transactions/transaction.c).          *)
(*                                                                         *)
(* One state object is modelled from its construction to its destruction:  *)
(* its scalar fields, the two request lists with the heap their entries    *)
(* live on, the 16-bit file measurement request counter, the PTS object    *)
(* and the frame of a running get_reason_string call.  The preferred       *)
(* language list and the language tags are sequences of one-character      *)
(* strings, so that the token scanner works on characters as the C code    *)
(* does; the reason strings are the byte sequences of the source.  History *)
(* variables record the calls made and what they returned.                 *)
(***************************************************************************)
EXTENDS Integers, Sequences, FiniteSets, TLC

(***************************************************************************)
(* Bounds of the model.                                                    *)
(***************************************************************************)
\* Spec: number of add_file_meas_request calls
MaxFileAdds == 2
\* Spec: number of add_comp_evid_request calls
MaxCompAdds == 2
\* SpecReason: length of the enumerated preferred-language strings
MaxLangLen == 5
\* iterations of the while loop of get_reason_string that are followed
MaxIter == 12
\* SpecWrap: number of add_file_meas_request calls (beyond the u_int16_t range)
WrapAdds == 65538
\* SpecWrap: pending file measurement requests kept at a time
MaxPendingWrap == 2
\* SpecOrder: pending file measurement requests kept at a time after the wrap
MaxPendingOrder == 3
\* SpecOrder: number of add_comp_evid_request calls
MaxOrderCompAdds == 3
\* SpecCreate: number of add calls per registry
MaxCreateAdds == 1
\* SpecFrame: number of add calls per registry
MaxFrameAdds == 1
\* SpecPadding: length of the enumerated preferred-language strings
MaxPadLen == 4
\* SpecTransaction: number of payloads of a message
MaxPayloads == 2

(***************************************************************************)
(* Program constants and enumerators.                                      *)
(***************************************************************************)
\* number of values of u_int16_t, the type of id and file_meas_request_counter
UINT16_RANGE == 65536

TNC_CONNECTION_STATE_CREATE == "TNC_CONNECTION_STATE_CREATE"
IMV_ATTESTATION_STATE_INIT == "IMV_ATTESTATION_STATE_INIT"
TNC_IMV_ACTION_RECOMMENDATION_NO_RECOMMENDATION == "TNC_IMV_ACTION_RECOMMENDATION_NO_RECOMMENDATION"
TNC_IMV_EVALUATION_RESULT_DONT_KNOW == "TNC_IMV_EVALUATION_RESULT_DONT_KNOW"

(***************************************************************************)
(* Input domains of the operations.                                        *)
(***************************************************************************)
ConnectionIds == {1}
ConnectionStates == {TNC_CONNECTION_STATE_CREATE, "TNC_CONNECTION_STATE_HANDSHAKE"}
HandshakeStates == {IMV_ATTESTATION_STATE_INIT, "IMV_ATTESTATION_STATE_MEAS"}
Recommendations ==
    { <<TNC_IMV_ACTION_RECOMMENDATION_NO_RECOMMENDATION, TNC_IMV_EVALUATION_RESULT_DONT_KNOW>>,
      <<"TNC_IMV_ACTION_RECOMMENDATION_ALLOW", "TNC_IMV_EVALUATION_RESULT_COMPLIANT">> }
\* (file_id, is_dir) arguments of add_file_meas_request
FileInputs == { <<42, TRUE>>, <<7, FALSE>> }
\* (vendor_id, qualifier, name) arguments of the component evidence calls
CompInputs ==
    { [vendor_id |-> 7, qualifier |-> [kernel |-> TRUE, sub_component |-> FALSE, type |-> 2], name |-> "X"],
      [vendor_id |-> 7, qualifier |-> [kernel |-> TRUE, sub_component |-> FALSE, type |-> 2], name |-> "Y"] }
\* ids passed to check_off_file_meas_request, and ids whose history is kept
ObsIds == 0 .. (MaxFileAdds + 1)

VARIABLES
    \* fields of private_imv_attestation_state_t
    connection_id, state, handshake_state, rec, eval,
    file_meas_request_counter, file_meas_requests, comp_evid_requests,
    measurement_error,
    \* frame of get_reason_string: program counter, the chunk still to scan,
    \* the two output chunks, the value returned
    rs_pc, preferred_language, reason_string, reason_language, rs_return,
    \* value returned by the last registry call (with its output parameters)
    ret,
    \* history: the last registry call with the state it started from
    last,
    \* history: observed ids returned by add_file_meas_request / checked off
    issued, checked,
    \* history: greatest id returned so far (0: none)
    max_issued,
    \* history: add_file_meas_request calls not yet checked off
    outstanding,
    \* history: numbers of calls
    n_file_add, n_file_off, n_comp_add, n_comp_off,
    \* history: set_measurement_error has been called
    error_set,
    \* history: argument of the running get_reason_string call, loop iterations,
    \* positions of the argument read by the loop body
    rs_input, rs_iter, rs_reads,
    \* addresses of the requests in the two lists, in list order, and the heaps
    \* the requests are allocated from
    file_meas_request_ptrs, comp_evid_request_ptrs, file_heap, comp_heap,
    \* the state object exists; the PTS object it holds; the platform_info
    \* setting of the configuration
    alive, pts, settings_platform_info,
    \* history: the id passed to imv_attestation_state_create, no method called yet
    created_id, fresh,
    \* history: the pair of the last set_recommendation call, the pair written
    \* by the last get_recommendation call and the pair set when it was called
    last_rec, out_rec, out_rec_want,
    \* history: the argument of the last set_handshake_state call, the value
    \* returned by the last get_handshake_state call and the one set when it
    \* was called
    last_handshake, out_handshake, out_handshake_want,
    \* transaction_create: program counter, the message passed, what it returned
    tx_pc, tx_request, tx_result

scalarVars == <<connection_id, state, handshake_state, rec, eval, measurement_error>>
fileVars == <<file_meas_request_counter, file_meas_requests, file_meas_request_ptrs, file_heap>>
compVars == <<comp_evid_requests, comp_evid_request_ptrs, comp_heap>>
objVars == <<alive, pts, settings_platform_info>>
rsVars == <<rs_pc, preferred_language, reason_string, reason_language, rs_return>>
fileHist == <<issued, checked, max_issued, outstanding, n_file_add, n_file_off>>
compHist == <<n_comp_add, n_comp_off>>
rsHist == <<rs_input, rs_iter, rs_reads>>
recHist == <<last_rec, out_rec, out_rec_want>>
hsHist == <<last_handshake, out_handshake, out_handshake_want>>
txVars == <<tx_pc, tx_request, tx_result>>
vars == <<scalarVars, fileVars, compVars, rsVars, objVars, ret, last, fileHist, compHist,
          error_set, rsHist, created_id, fresh, recHist, hsHist, txVars>>


(***************************************************************************)
(* The heap of the request structures of one registry.  An address is the  *)
(* number of the allocation that returned it; live holds the addresses     *)
(* allocated and not freed, invalid_frees counts the calls of free on an   *)
(* address that is not live (a second free of the same structure).         *)
(***************************************************************************)
EmptyHeap == [allocated |-> 0, live |-> {}, invalid_frees |-> 0]

\* the address the next malloc_thing returns
new_thing(heap) == heap.allocated + 1

malloc_thing(heap) ==
    [heap EXCEPT !.allocated = new_thing(heap), !.live = @ \cup {new_thing(heap)}]

free(heap, ptr) ==
    IF ptr \in heap.live
    THEN [heap EXCEPT !.live = @ \ {ptr}]
    ELSE [heap EXCEPT !.invalid_frees = @ + 1]

(***************************************************************************)
(* pts_t (pts/pts.h), as the state object uses it: created for an IMV,     *)
(* given the platform info string of the configuration, destroyed.         *)
(***************************************************************************)
NULL == "NULL"

pts_create(is_imc) == [is_imc |-> is_imc, platform_info |-> NULL, destroyed |-> 0]

pts_set_platform_info(handle, info) == [handle EXCEPT !.platform_info = info]

pts_destroy(handle) == [handle EXCEPT !.destroyed = @ + 1]

\* lib->settings->get_str(lib->settings,
\*     "libimcv.plugins.imv-attestation.platform_info", NULL)
settings_get_str == settings_platform_info

(***************************************************************************)
(* linked_list_t (utils/linked_list.h), as the state object uses it: an    *)
(* ordered collection with insertion at the end, enumeration from the      *)
(* first entry and removal at the enumerator's position.                   *)
(***************************************************************************)
linked_list_create == << >>

insert_last(list, item) == Append(list, item)

remove_at(list, i) == SubSeq(list, 1, i - 1) \o SubSeq(list, i + 1, Len(list))

get_count(list) == Len(list)

\* destroy_function(list, fn): fn is called on every item left in the list,
\* first to last, and the list is freed
RECURSIVE destroy_function(_, _)
destroy_function(list, heap) ==
    IF list = << >> THEN heap
    ELSE destroy_function(Tail(list), free(heap, Head(list)))

\* the enumeration with break on the first match: among the positions of the
\* entries that satisfy the test of the loop body, the first one; 0 if the
\* enumeration ends without a match
enumerate_first(matches) ==
    IF matches # {}
    THEN CHOOSE i \in matches : \A j \in matches : i <= j
    ELSE 0

(***************************************************************************)
(* Return value and output parameters of a registry call.  The caller's    *)
(* output variables start as 0 / FALSE and keep that value when the call   *)
(* does not write them.                                                    *)
(***************************************************************************)
NoReturn == [id |-> 0, found |-> FALSE, file_id |-> 0, is_dir |-> FALSE]

(***************************************************************************)
(* imv_attestation_state_create(connection_id)                             *)
(***************************************************************************)
\* a constructor that does not pass the platform info on to the PTS object
imv_attestation_state_create_no_platform(id) ==
    /\ connection_id = id
    /\ state = TNC_CONNECTION_STATE_CREATE
    /\ handshake_state = IMV_ATTESTATION_STATE_INIT
    /\ rec = TNC_IMV_ACTION_RECOMMENDATION_NO_RECOMMENDATION
    /\ eval = TNC_IMV_EVALUATION_RESULT_DONT_KNOW
    /\ file_meas_request_counter = 0
    /\ file_meas_requests = linked_list_create
    /\ comp_evid_requests = linked_list_create
    /\ measurement_error = FALSE
    /\ file_meas_request_ptrs = linked_list_create
    /\ comp_evid_request_ptrs = linked_list_create
    /\ file_heap = EmptyHeap
    /\ comp_heap = EmptyHeap
    /\ alive = TRUE
    /\ pts = pts_create(FALSE)

imv_attestation_state_create(id) ==
    /\ connection_id = id
    /\ state = TNC_CONNECTION_STATE_CREATE
    /\ handshake_state = IMV_ATTESTATION_STATE_INIT
    /\ rec = TNC_IMV_ACTION_RECOMMENDATION_NO_RECOMMENDATION
    /\ eval = TNC_IMV_EVALUATION_RESULT_DONT_KNOW
    /\ file_meas_request_counter = 0
    /\ file_meas_requests = linked_list_create
    /\ comp_evid_requests = linked_list_create
    /\ measurement_error = FALSE
    /\ file_meas_request_ptrs = linked_list_create
    /\ comp_evid_request_ptrs = linked_list_create
    /\ file_heap = EmptyHeap
    /\ comp_heap = EmptyHeap
    /\ alive = TRUE
    /\ LET platform_info == settings_get_str
       IN  pts = IF platform_info # NULL
                 THEN pts_set_platform_info(pts_create(FALSE), platform_info)
                 ELSE pts_create(FALSE)

(***************************************************************************)
(* destroy: the requests left in the two lists are freed with the lists,   *)
(* the PTS object is destroyed and the state object is freed.  The fields  *)
(* of the freed object keep their last value in the model; no method is    *)
(* called on it again.                                                     *)
(***************************************************************************)
\* a destroy that frees the two lists and not the requests left in them
destroy_leaks ==
    /\ pts' = pts_destroy(pts)
    /\ alive' = FALSE
    /\ UNCHANGED <<scalarVars, fileVars, compVars, settings_platform_info, rsVars, ret>>

destroy ==
    /\ file_heap' = destroy_function(file_meas_request_ptrs, file_heap)
    /\ comp_heap' = destroy_function(comp_evid_request_ptrs, comp_heap)
    /\ pts' = pts_destroy(pts)
    /\ alive' = FALSE
    /\ UNCHANGED <<scalarVars, file_meas_request_counter, file_meas_requests,
                   file_meas_request_ptrs, comp_evid_requests, comp_evid_request_ptrs,
                   settings_platform_info, rsVars, ret>>

(***************************************************************************)
(* Methods on the scalar fields.                                           *)
(***************************************************************************)
get_connection_id == connection_id

\* a change_state that also restarts the handshake
change_state_restarts(new_state) ==
    /\ state' = new_state
    /\ handshake_state' = IMV_ATTESTATION_STATE_INIT
    /\ UNCHANGED <<connection_id, rec, eval, measurement_error>>
    /\ UNCHANGED <<fileVars, compVars, rsVars, objVars, ret>>

change_state(new_state) ==
    /\ state' = new_state
    /\ UNCHANGED <<connection_id, handshake_state, rec, eval, measurement_error>>
    /\ UNCHANGED <<fileVars, compVars, rsVars, objVars, ret>>

get_recommendation == <<rec, eval>>

\* a setter that stores the recommendation and not the evaluation
set_recommendation_rec_only(new_rec, new_eval) ==
    /\ rec' = new_rec
    /\ UNCHANGED <<connection_id, state, handshake_state, eval, measurement_error>>
    /\ UNCHANGED <<fileVars, compVars, rsVars, objVars, ret>>

set_recommendation(new_rec, new_eval) ==
    /\ rec' = new_rec
    /\ eval' = new_eval
    /\ UNCHANGED <<connection_id, state, handshake_state, measurement_error>>
    /\ UNCHANGED <<fileVars, compVars, rsVars, objVars, ret>>

get_handshake_state == handshake_state

\* a setter that refuses to go back to the initial handshake state
set_handshake_state_forward(new_state) ==
    /\ handshake_state' = IF new_state = IMV_ATTESTATION_STATE_INIT
                          THEN handshake_state ELSE new_state
    /\ UNCHANGED <<connection_id, state, rec, eval, measurement_error>>
    /\ UNCHANGED <<fileVars, compVars, rsVars, objVars, ret>>

set_handshake_state(new_state) ==
    /\ handshake_state' = new_state
    /\ UNCHANGED <<connection_id, state, rec, eval, measurement_error>>
    /\ UNCHANGED <<fileVars, compVars, rsVars, objVars, ret>>

get_measurement_error == measurement_error

\* a setter that flips the flag instead of setting it
set_measurement_error_toggles ==
    /\ measurement_error' = ~measurement_error
    /\ UNCHANGED <<connection_id, state, handshake_state, rec, eval>>
    /\ UNCHANGED <<fileVars, compVars, rsVars, objVars, ret>>

set_measurement_error ==
    /\ measurement_error' = TRUE
    /\ UNCHANGED <<connection_id, state, handshake_state, rec, eval>>
    /\ UNCHANGED <<fileVars, compVars, rsVars, objVars, ret>>

(***************************************************************************)
(* File measurement request registry.                                      *)
(***************************************************************************)
\* ++this->file_meas_request_counter on a u_int16_t
increment_counter(counter) == (counter + 1) % UINT16_RANGE

add_file_meas_request(file_id, is_dir) ==
    LET counter == increment_counter(file_meas_request_counter)
        request == [id |-> counter, file_id |-> file_id, is_dir |-> is_dir]
    IN  /\ file_heap' = malloc_thing(file_heap)
        /\ file_meas_request_counter' = counter
        /\ file_meas_requests' = insert_last(file_meas_requests, request)
        /\ file_meas_request_ptrs' = insert_last(file_meas_request_ptrs, new_thing(file_heap))
        /\ ret' = [NoReturn EXCEPT !.id = counter]
        /\ UNCHANGED <<scalarVars, compVars, rsVars, objVars>>

\* a check-off that removes the last entry with the id instead of the first
check_off_file_meas_request_last(id) ==
    LET matches == {k \in 1 .. Len(file_meas_requests) : file_meas_requests[k].id = id}
        i == IF matches = {} THEN 0
             ELSE CHOOSE k \in matches : \A j \in matches : j <= k
    IN  /\ IF i # 0
           THEN /\ ret' = [NoReturn EXCEPT !.found = TRUE,
                                           !.file_id = file_meas_requests[i].file_id,
                                           !.is_dir = file_meas_requests[i].is_dir]
                /\ file_meas_requests' = remove_at(file_meas_requests, i)
                /\ file_meas_request_ptrs' = remove_at(file_meas_request_ptrs, i)
                /\ file_heap' = free(file_heap, file_meas_request_ptrs[i])
           ELSE /\ ret' = NoReturn
                /\ UNCHANGED <<file_meas_requests, file_meas_request_ptrs, file_heap>>
        /\ UNCHANGED <<file_meas_request_counter, scalarVars, compVars, rsVars, objVars>>

\* a check-off that hands the id of the newest request back to the counter
check_off_file_meas_request_reuses(id) ==
    LET i == enumerate_first({k \in 1 .. Len(file_meas_requests) : file_meas_requests[k].id = id})
    IN  /\ IF i # 0
           THEN /\ ret' = [NoReturn EXCEPT !.found = TRUE,
                                           !.file_id = file_meas_requests[i].file_id,
                                           !.is_dir = file_meas_requests[i].is_dir]
                /\ file_meas_requests' = remove_at(file_meas_requests, i)
                /\ file_meas_request_ptrs' = remove_at(file_meas_request_ptrs, i)
                /\ file_heap' = free(file_heap, file_meas_request_ptrs[i])
                /\ file_meas_request_counter' =
                       IF id = file_meas_request_counter
                       THEN (file_meas_request_counter - 1) % UINT16_RANGE
                       ELSE file_meas_request_counter
           ELSE /\ ret' = NoReturn
                /\ UNCHANGED fileVars
        /\ UNCHANGED <<scalarVars, compVars, rsVars, objVars>>

\* a check-off that reports the match and leaves the entry in the list
check_off_file_meas_request_keeps(id) ==
    LET i == enumerate_first({k \in 1 .. Len(file_meas_requests) : file_meas_requests[k].id = id})
    IN  /\ IF i # 0
           THEN ret' = [NoReturn EXCEPT !.found = TRUE,
                                        !.file_id = file_meas_requests[i].file_id,
                                        !.is_dir = file_meas_requests[i].is_dir]
           ELSE ret' = NoReturn
        /\ UNCHANGED <<fileVars, scalarVars, compVars, rsVars, objVars>>

check_off_file_meas_request(id) ==
    LET i == enumerate_first({k \in 1 .. Len(file_meas_requests) : file_meas_requests[k].id = id})
    IN  /\ IF i # 0
           THEN /\ ret' = [NoReturn EXCEPT !.found = TRUE,
                                           !.file_id = file_meas_requests[i].file_id,
                                           !.is_dir = file_meas_requests[i].is_dir]
                /\ file_meas_requests' = remove_at(file_meas_requests, i)
                /\ file_meas_request_ptrs' = remove_at(file_meas_request_ptrs, i)
                /\ file_heap' = free(file_heap, file_meas_request_ptrs[i])
           ELSE /\ ret' = NoReturn
                /\ UNCHANGED <<file_meas_requests, file_meas_request_ptrs, file_heap>>
        /\ UNCHANGED <<file_meas_request_counter, scalarVars, compVars, rsVars, objVars>>

get_file_meas_request_count == get_count(file_meas_requests)

(***************************************************************************)
(* Functional component evidence request registry.                         *)
(***************************************************************************)
add_comp_evid_request(vendor_id, qualifier, comp_name) ==
    LET request == [vendor_id |-> vendor_id, qualifier |-> qualifier, name |-> comp_name]
    IN  /\ comp_heap' = malloc_thing(comp_heap)
        /\ comp_evid_requests' = insert_last(comp_evid_requests, request)
        /\ comp_evid_request_ptrs' = insert_last(comp_evid_request_ptrs, new_thing(comp_heap))
        /\ ret' = NoReturn
        /\ UNCHANGED <<scalarVars, fileVars, rsVars, objVars>>

\* a check-off that removes the last matching entry instead of the first
check_off_comp_evid_request_last(vendor_id, qualifier, comp_name) ==
    LET matches == {k \in 1 .. Len(comp_evid_requests) :
                 LET request == comp_evid_requests[k]
                 IN  /\ request.vendor_id = vendor_id
                     /\ request.qualifier.kernel = qualifier.kernel
                     /\ request.qualifier.sub_component = qualifier.sub_component
                     /\ request.qualifier.type = qualifier.type
                     /\ request.name = comp_name}
        i == IF matches = {} THEN 0
             ELSE CHOOSE k \in matches : \A j \in matches : j <= k
    IN  /\ IF i # 0
           THEN /\ ret' = [NoReturn EXCEPT !.found = TRUE]
                /\ comp_evid_requests' = remove_at(comp_evid_requests, i)
                /\ comp_evid_request_ptrs' = remove_at(comp_evid_request_ptrs, i)
                /\ comp_heap' = free(comp_heap, comp_evid_request_ptrs[i])
           ELSE /\ ret' = NoReturn
                /\ UNCHANGED <<comp_evid_requests, comp_evid_request_ptrs, comp_heap>>
        /\ UNCHANGED <<scalarVars, fileVars, rsVars, objVars>>

\* a check-off that compares vendor id and qualifier and not the name
check_off_comp_evid_request_any_name(vendor_id, qualifier, comp_name) ==
    LET i == enumerate_first({k \in 1 .. Len(comp_evid_requests) :
                 LET request == comp_evid_requests[k]
                 IN  /\ request.vendor_id = vendor_id
                     /\ request.qualifier.kernel = qualifier.kernel
                     /\ request.qualifier.sub_component = qualifier.sub_component
                     /\ request.qualifier.type = qualifier.type})
    IN  /\ IF i # 0
           THEN /\ ret' = [NoReturn EXCEPT !.found = TRUE]
                /\ comp_evid_requests' = remove_at(comp_evid_requests, i)
                /\ comp_evid_request_ptrs' = remove_at(comp_evid_request_ptrs, i)
                /\ comp_heap' = free(comp_heap, comp_evid_request_ptrs[i])
           ELSE /\ ret' = NoReturn
                /\ UNCHANGED <<comp_evid_requests, comp_evid_request_ptrs, comp_heap>>
        /\ UNCHANGED <<scalarVars, fileVars, rsVars, objVars>>

check_off_comp_evid_request(vendor_id, qualifier, comp_name) ==
    LET i == enumerate_first({k \in 1 .. Len(comp_evid_requests) :
                 LET request == comp_evid_requests[k]
                 IN  /\ request.vendor_id = vendor_id
                     /\ request.qualifier.kernel = qualifier.kernel
                     /\ request.qualifier.sub_component = qualifier.sub_component
                     /\ request.qualifier.type = qualifier.type
                     /\ request.name = comp_name})
    IN  /\ IF i # 0
           THEN /\ ret' = [NoReturn EXCEPT !.found = TRUE]
                /\ comp_evid_requests' = remove_at(comp_evid_requests, i)
                /\ comp_evid_request_ptrs' = remove_at(comp_evid_request_ptrs, i)
                /\ comp_heap' = free(comp_heap, comp_evid_request_ptrs[i])
           ELSE /\ ret' = NoReturn
                /\ UNCHANGED <<comp_evid_requests, comp_evid_request_ptrs, comp_heap>>
        /\ UNCHANGED <<scalarVars, fileVars, rsVars, objVars>>

get_comp_evid_request_count == get_count(comp_evid_requests)

(***************************************************************************)
(* Reason strings.  A chunk is a sequence: of one-character strings for    *)
(* the language tags and the preferred-language list, of byte values for   *)
(* the reason strings.                                                     *)
(***************************************************************************)
TAB == "\t"

\* The reason strings of the table, as chunk_create(string, strlen(string))
\* makes them: the bytes of the string literal of the source file, which is
\* encoded in UTF-8.
\* "IMV Attestation: Non-matching file measurement/s or invalid TPM Quote
\* signature" (79 bytes, ASCII)
reason_string_en ==
    << 73, 77, 86, 32, 65, 116, 116, 101, 115, 116, 97, 116, 105, 111, 110,
       58, 32, 78, 111, 110, 45, 109, 97, 116, 99, 104, 105, 110, 103, 32,
       102, 105, 108, 101, 32, 109, 101, 97, 115, 117, 114, 101, 109, 101,
       110, 116, 47, 115, 32, 111, 114, 32, 105, 110, 118, 97, 108, 105,
       100, 32, 84, 80, 77, 32, 81, 117, 111, 116, 101, 32, 115, 105, 103,
       110, 97, 116, 117, 114, 101 >>

\* "IMV Attestation: " followed by the Mongolian text in Cyrillic script,
\* with "TPM Quote" in Latin letters (115 bytes, the Cyrillic letters two bytes
\* each)
reason_string_mn ==
    << 73, 77, 86, 32, 65, 116, 116, 101, 115, 116, 97, 116, 105, 111, 110,
       58, 32, 208, 164, 208, 176, 208, 185, 208, 187, 209, 131, 209, 131,
       208, 180, 209, 139, 208, 189, 32, 209, 133, 209, 141, 208, 188, 208,
       182, 208, 184, 208, 187, 209, 130, 32, 208, 183, 211, 169, 209, 128,
       209, 129, 211, 169, 208, 189, 32, 209, 141, 209, 129, 208, 178, 209,
       141, 208, 187, 32, 208, 177, 209, 131, 209, 128, 209, 131, 209, 131,
       32, 84, 80, 77, 32, 81, 117, 111, 116, 101, 32, 208, 179, 208, 176,
       209, 128, 209, 139, 208, 189, 32, 210, 175, 209, 129, 209, 141, 208,
       179 >>

\* "IMV Attestation: Falsche Datei Messung/en oder TPM Quote Unterschrift
\* ist ung<u umlaut>ltig" (83 bytes, the umlaut two bytes: 195, 188)
reason_string_de ==
    << 73, 77, 86, 32, 65, 116, 116, 101, 115, 116, 97, 116, 105, 111, 110,
       58, 32, 70, 97, 108, 115, 99, 104, 101, 32, 68, 97, 116, 101, 105,
       32, 77, 101, 115, 115, 117, 110, 103, 47, 101, 110, 32, 111, 100,
       101, 114, 32, 84, 80, 77, 32, 81, 117, 111, 116, 101, 32, 85, 110,
       116, 101, 114, 115, 99, 104, 114, 105, 102, 116, 32, 105, 115, 116,
       32, 117, 110, 103, 195, 188, 108, 116, 105, 103 >>

\* static entry_t reasons[]
reasons ==
    << [lang |-> <<"e", "n">>, string |-> reason_string_en],
       [lang |-> <<"m", "n">>, string |-> reason_string_mn],
       [lang |-> <<"d", "e">>, string |-> reason_string_de] >>

chunk_empty == << >>

\* eat_whitespace (utils/lexparser.h): skips the leading whitespace of src and
\* tells whether anything is left
RECURSIVE skip_whitespace(_)
skip_whitespace(src) ==
    IF Len(src) > 0 /\ Head(src) \in {" ", TAB}
    THEN skip_whitespace(Tail(src))
    ELSE src

eat_whitespace(src) ==
    LET rest == skip_whitespace(src)
    IN  [src |-> rest, result |-> Len(rest) > 0]

\* extract_token (utils/lexparser.h): the part of src before the first
\* termination character, src advanced past that character; without a
\* termination character the token is empty and src is left as it is
extract_token(termination, src) ==
    IF \E k \in 1 .. Len(src) : src[k] = termination
    THEN LET eot == CHOOSE k \in 1 .. Len(src) :
                        src[k] = termination /\ \A j \in 1 .. (k - 1) : src[j] # termination
         IN  [result |-> TRUE,
              token |-> SubSeq(src, 1, eot - 1),
              src |-> SubSeq(src, eot + 1, Len(src))]
    ELSE [result |-> FALSE, token |-> chunk_empty, src |-> src]

\* while (pref_lang.len && *pos-- == ' ') pref_lang.len--;
RECURSIVE eat_trailing_whitespace(_)
eat_trailing_whitespace(pref_lang) ==
    IF Len(pref_lang) > 0 /\ pref_lang[Len(pref_lang)] = " "
    THEN eat_trailing_whitespace(SubSeq(pref_lang, 1, Len(pref_lang) - 1))
    ELSE pref_lang

\* the positions of the argument that one pass of the loop body reads itself,
\* the chunk to scan starting after the first start characters of the
\* argument: the characters tested by the trailing whitespace loop
trailing_reads_unguarded(start, pref_lang) ==
    LET len == Len(pref_lang)
        eaten == len - Len(eat_trailing_whitespace(pref_lang))
    IN  {start + l : l \in (len - eaten) .. len}

trailing_reads(start, pref_lang) ==
    LET len == Len(pref_lang)
        eaten == len - Len(eat_trailing_whitespace(pref_lang))
    IN  {start + l : l \in (IF eaten = len THEN 1 ELSE len - eaten) .. len}

\* the same for a whole pass: the token cut as the loop body cuts it, its
\* trailing whitespace tested; no read when the while condition fails
loop_reads(start, src) ==
    LET ws == eat_whitespace(src)
        tok == extract_token(",", ws.src)
        pref_lang == IF tok.result THEN tok.token ELSE tok.src
    IN  IF ws.result
        THEN trailing_reads(start + (Len(src) - Len(ws.src)), pref_lang)
        ELSE {}

\* a table scan that stops one entry short (i < countof(reasons) - 1)
match_reason_short(pref_lang) ==
    IF \E i \in 1 .. (Len(reasons) - 1) : reasons[i].lang = pref_lang
    THEN CHOOSE i \in 1 .. (Len(reasons) - 1) :
            reasons[i].lang = pref_lang /\ \A j \in 1 .. (i - 1) : reasons[j].lang # pref_lang
    ELSE 0

\* for (i = 0; i < countof(reasons); i++) if (chunk_equals(lang, pref_lang)):
\* the first table index whose tag equals pref_lang, 0 if there is none
match_reason(pref_lang) ==
    IF \E i \in 1 .. Len(reasons) : reasons[i].lang = pref_lang
    THEN CHOOSE i \in 1 .. Len(reasons) :
            reasons[i].lang = pref_lang /\ \A j \in 1 .. (i - 1) : reasons[j].lang # pref_lang
    ELSE 0

\* entry of get_reason_string: the arguments are bound, the outputs unwritten
get_reason_string_call(input) ==
    /\ rs_pc' = "loop"
    /\ preferred_language' = input
    /\ reason_string' = chunk_empty
    /\ reason_language' = chunk_empty
    /\ rs_return' = FALSE
    /\ UNCHANGED <<scalarVars, fileVars, compVars, objVars, ret>>

\* one evaluation of the while condition of get_reason_string and, when it
\* holds, one pass through the loop body; when it fails, the default return
get_reason_string_loop ==
    /\ rs_pc = "loop"
    /\ LET ws == eat_whitespace(preferred_language)
           tok == extract_token(",", ws.src)
           pref_lang == eat_trailing_whitespace(IF tok.result THEN tok.token ELSE tok.src)
           i == match_reason(pref_lang)
       IN  IF ~ws.result
           THEN /\ preferred_language' = ws.src
                /\ reason_string' = reasons[1].string
                /\ reason_language' = reasons[1].lang
                /\ rs_return' = TRUE
                /\ rs_pc' = "return"
           ELSE IF i # 0
           THEN /\ preferred_language' = tok.src
                /\ reason_language' = reasons[i].lang
                /\ reason_string' = reasons[i].string
                /\ rs_return' = TRUE
                /\ rs_pc' = "return"
           ELSE /\ preferred_language' = tok.src
                /\ UNCHANGED <<reason_string, reason_language, rs_return, rs_pc>>
    /\ UNCHANGED <<scalarVars, fileVars, compVars, objVars, ret>>

\* get_reason_string as a function of its argument: the number of the table
\* entry it returns, 0 when it has not returned after passes evaluations of
\* the while condition
RECURSIVE get_reason_string_result(_, _)
get_reason_string_result(src, passes) ==
    LET ws == eat_whitespace(src)
        tok == extract_token(",", ws.src)
        pref_lang == eat_trailing_whitespace(IF tok.result THEN tok.token ELSE tok.src)
        i == match_reason(pref_lang)
    IN  IF passes = 0 THEN 0
        ELSE IF ~ws.result THEN 1
        ELSE IF i # 0 THEN i
        ELSE get_reason_string_result(tok.src, passes - 1)

(***************************************************************************)
(* transaction_create (src/charon/sa/transactions/transaction.c).  A       *)
(* message is its request flag, exchange type, message id and payloads; a  *)
(* payload is its type and, for DELETE and NOTIFY payloads, its protocol   *)
(* id and notify type.  A transaction is the constructor that made it with *)
(* the arguments it was given; NoTransaction is the NULL pointer.          *)
(***************************************************************************)
IKE_SA_INIT == "IKE_SA_INIT"
IKE_AUTH == "IKE_AUTH"
CREATE_CHILD_SA == "CREATE_CHILD_SA"
INFORMATIONAL == "INFORMATIONAL"
DELETE == "DELETE"
NOTIFY == "NOTIFY"
REKEY_SA == "REKEY_SA"
PROTO_IKE == "PROTO_IKE"
PROTO_AH == "PROTO_AH"
PROTO_ESP == "PROTO_ESP"

NoTransaction == [kind |-> "NULL", ike_sa |-> "NULL", message_id |-> 0]

ike_sa_init_create(ike_sa, message_id) ==
    [kind |-> "ike_sa_init", ike_sa |-> ike_sa, message_id |-> message_id]

delete_ike_sa_create(ike_sa, message_id) ==
    [kind |-> "delete_ike_sa", ike_sa |-> ike_sa, message_id |-> message_id]

dead_peer_detection_create(ike_sa, message_id) ==
    [kind |-> "dead_peer_detection", ike_sa |-> ike_sa, message_id |-> message_id]

\* iterator_t over the payloads: a new iterator stands before the first
\* payload, has_next moves it to the next payload when there is one
iterator_has_next(payloads, pos) == pos < Len(payloads)

iterator_current(payloads, pos) == payloads[pos]

\* the while loop of case CREATE_CHILD_SA, the iterator standing at pos: the
\* payloads visited when the loop is left and the transaction it found
RECURSIVE create_child_sa_scan(_, _, _, _)
create_child_sa_scan(ike_sa, message_id, payloads, pos) ==
    IF iterator_has_next(payloads, pos)
    THEN LET current == iterator_current(payloads, pos + 1)
             rekey == current.type = NOTIFY /\ current.notify_type = REKEY_SA
             \* case PROTO_IKE, case PROTO_AH, case PROTO_ESP: nothing is created
             transaction == NoTransaction
         IN  IF rekey /\ transaction # NoTransaction
             THEN [transaction |-> transaction, visited |-> pos + 1]
             ELSE create_child_sa_scan(ike_sa, message_id, payloads, pos + 1)
    ELSE [transaction |-> NoTransaction, visited |-> pos]

\* a scan that takes a DELETE payload of any protocol for the deletion of
\* the IKE_SA
RECURSIVE informational_scan_any_protocol(_, _, _, _, _)
informational_scan_any_protocol(ike_sa, message_id, payloads, pos, payload_count) ==
    IF iterator_has_next(payloads, pos)
    THEN LET current == iterator_current(payloads, pos + 1)
             transaction == IF current.type = DELETE
                            THEN delete_ike_sa_create(ike_sa, message_id)
                            ELSE NoTransaction
         IN  IF transaction # NoTransaction
             THEN [transaction |-> transaction, visited |-> pos + 1,
                   payload_count |-> payload_count + 1]
             ELSE informational_scan_any_protocol(ike_sa, message_id, payloads, pos + 1,
                                                  payload_count + 1)
    ELSE [transaction |-> NoTransaction, visited |-> pos, payload_count |-> payload_count]

\* the while loop of case INFORMATIONAL, the iterator standing at pos
RECURSIVE informational_scan(_, _, _, _, _)
informational_scan(ike_sa, message_id, payloads, pos, payload_count) ==
    IF iterator_has_next(payloads, pos)
    THEN LET current == iterator_current(payloads, pos + 1)
             transaction == IF current.type = DELETE /\ current.protocol_id = PROTO_IKE
                            THEN delete_ike_sa_create(ike_sa, message_id)
                            ELSE NoTransaction
         IN  IF transaction # NoTransaction
             THEN [transaction |-> transaction, visited |-> pos + 1,
                   payload_count |-> payload_count + 1]
             ELSE informational_scan(ike_sa, message_id, payloads, pos + 1,
                                     payload_count + 1)
    ELSE [transaction |-> NoTransaction, visited |-> pos, payload_count |-> payload_count]

\* what transaction_create returns, with the numbers of payload iterators it
\* created and destroyed and of payloads it visited
NoResult == [transaction |-> NoTransaction, iterators_created |-> 0,
             iterators_destroyed |-> 0, visited |-> 0]

transaction_create(ike_sa, request) ==
    IF ~request.request
    THEN NoResult
    ELSE LET message_id == request.message_id
         IN  CASE request.exchange_type = IKE_SA_INIT ->
                      [NoResult EXCEPT !.transaction = ike_sa_init_create(ike_sa, message_id)]
               [] request.exchange_type = IKE_AUTH -> NoResult
               [] request.exchange_type = CREATE_CHILD_SA ->
                      LET scan == create_child_sa_scan(ike_sa, message_id, request.payloads, 0)
                      IN  [transaction |-> scan.transaction, iterators_created |-> 1,
                           iterators_destroyed |-> 1, visited |-> scan.visited]
               [] request.exchange_type = INFORMATIONAL ->
                      LET scan == informational_scan(ike_sa, message_id, request.payloads, 0, 0)
                      IN  [transaction |-> IF scan.payload_count = 0
                                           THEN dead_peer_detection_create(ike_sa, message_id)
                                           ELSE scan.transaction,
                           iterators_created |-> 1, iterators_destroyed |-> 1,
                           visited |-> scan.visited]
               [] OTHER -> NoResult

NoMessage == [request |-> FALSE, exchange_type |-> "EXCHANGE_TYPE_UNDEFINED",
              message_id |-> 0, payloads |-> << >>]

transaction_create_call(ike_sa, request) ==
    /\ tx_pc' = "returned"
    /\ tx_request' = request
    /\ tx_result' = transaction_create(ike_sa, request)
    /\ UNCHANGED <<scalarVars, fileVars, compVars, rsVars, objVars, ret>>

(***************************************************************************)
(* The calls of the driver, with the history they leave.  The object is    *)
(* used by one caller at a time: no method starts while get_reason_string  *)
(* is running, and none is called on a destroyed object.                   *)
(***************************************************************************)
NoComp == [vendor_id |-> 0,
           qualifier |-> [kernel |-> FALSE, sub_component |-> FALSE, type |-> 0],
           name |-> ""]

NoCall == [op |-> "none", id |-> 0, comp |-> NoComp,
           pre_file_requests |-> << >>, pre_comp_requests |-> << >>,
           pre_file_ptrs |-> << >>, pre_comp_ptrs |-> << >>,
           pre_issued |-> {}, pre_checked |-> {}, pre_max_issued |-> 0,
           pre_outstanding |-> {}, pre_n_comp_add |-> 0, pre_n_comp_off |-> 0]

\* the state before a registry call
Before(op, id, comp) ==
    [op |-> op, id |-> id, comp |-> comp,
     pre_file_requests |-> file_meas_requests,
     pre_comp_requests |-> comp_evid_requests,
     pre_file_ptrs |-> file_meas_request_ptrs,
     pre_comp_ptrs |-> comp_evid_request_ptrs,
     pre_issued |-> issued, pre_checked |-> checked,
     pre_max_issued |-> max_issued, pre_outstanding |-> outstanding,
     pre_n_comp_add |-> IF comp \in DOMAIN n_comp_add THEN n_comp_add[comp] ELSE 0,
     pre_n_comp_off |-> IF comp \in DOMAIN n_comp_off THEN n_comp_off[comp] ELSE 0]

Max(a, b) == IF a >= b THEN a ELSE b

\* the oldest outstanding add call that returned id
Oldest(id) ==
    CHOOSE r \in outstanding :
        r.id = id /\ \A q \in outstanding : q.id = id => r.n <= q.n

\* a method may be called: the object exists and no call is running
Callable == alive /\ rs_pc # "loop"

\* a method of the object has been called
Called ==
    /\ fresh' = FALSE
    /\ UNCHANGED <<created_id, txVars>>

ChangeState(new_state) ==
    /\ Callable
    /\ change_state(new_state)
    /\ Called
    /\ UNCHANGED <<last, fileHist, compHist, error_set, rsHist, recHist, hsHist>>

GetRecommendation ==
    /\ Callable
    /\ out_rec' = get_recommendation
    /\ out_rec_want' = last_rec
    /\ Called
    /\ UNCHANGED <<scalarVars, fileVars, compVars, rsVars, objVars, ret>>
    /\ UNCHANGED <<last, fileHist, compHist, error_set, rsHist, last_rec, hsHist>>

SetRecommendation(new_rec, new_eval) ==
    /\ Callable
    /\ set_recommendation(new_rec, new_eval)
    /\ last_rec' = <<new_rec, new_eval>>
    /\ Called
    /\ UNCHANGED <<last, fileHist, compHist, error_set, rsHist, out_rec, out_rec_want,
                   hsHist>>

GetHandshakeState ==
    /\ Callable
    /\ out_handshake' = get_handshake_state
    /\ out_handshake_want' = last_handshake
    /\ Called
    /\ UNCHANGED <<scalarVars, fileVars, compVars, rsVars, objVars, ret>>
    /\ UNCHANGED <<last, fileHist, compHist, error_set, rsHist, recHist, last_handshake>>

SetHandshakeState(new_state) ==
    /\ Callable
    /\ set_handshake_state(new_state)
    /\ last_handshake' = new_state
    /\ Called
    /\ UNCHANGED <<last, fileHist, compHist, error_set, rsHist, recHist, out_handshake,
                   out_handshake_want>>

SetMeasurementError ==
    /\ Callable
    /\ set_measurement_error
    /\ error_set' = TRUE
    /\ Called
    /\ UNCHANGED <<last, fileHist, compHist, rsHist, recHist, hsHist>>

AddFileMeasRequest(file_id, is_dir) ==
    /\ Callable
    /\ add_file_meas_request(file_id, is_dir)
    /\ last' = Before("add_file_meas_request", 0, NoComp)
    /\ n_file_add' = n_file_add + 1
    /\ issued' = issued \cup ({ret'.id} \cap ObsIds)
    /\ max_issued' = Max(max_issued, ret'.id)
    /\ outstanding' = outstanding \cup
           {[n |-> n_file_add + 1, id |-> ret'.id, file_id |-> file_id, is_dir |-> is_dir]}
    /\ Called
    /\ UNCHANGED <<checked, n_file_off, compHist, error_set, rsHist, recHist, hsHist>>

CheckOffFileMeasRequest(id) ==
    /\ Callable
    /\ check_off_file_meas_request(id)
    /\ last' = Before("check_off_file_meas_request", id, NoComp)
    /\ n_file_off' = IF ret'.found THEN n_file_off + 1 ELSE n_file_off
    /\ checked' = IF ret'.found THEN checked \cup ({id} \cap ObsIds) ELSE checked
    /\ outstanding' = IF ret'.found /\ \E r \in outstanding : r.id = id
                      THEN outstanding \ {Oldest(id)}
                      ELSE outstanding
    /\ Called
    /\ UNCHANGED <<issued, max_issued, n_file_add, compHist, error_set, rsHist, recHist,
                   hsHist>>

AddCompEvidRequest(comp) ==
    /\ Callable
    /\ add_comp_evid_request(comp.vendor_id, comp.qualifier, comp.name)
    /\ last' = Before("add_comp_evid_request", 0, comp)
    /\ n_comp_add' = [n_comp_add EXCEPT ![comp] = @ + 1]
    /\ Called
    /\ UNCHANGED <<n_comp_off, fileHist, error_set, rsHist, recHist, hsHist>>

CheckOffCompEvidRequest(comp) ==
    /\ Callable
    /\ check_off_comp_evid_request(comp.vendor_id, comp.qualifier, comp.name)
    /\ last' = Before("check_off_comp_evid_request", 0, comp)
    /\ n_comp_off' = IF ret'.found THEN [n_comp_off EXCEPT ![comp] = @ + 1] ELSE n_comp_off
    /\ Called
    /\ UNCHANGED <<n_comp_add, fileHist, error_set, rsHist, recHist, hsHist>>

GetReasonStringCall(input) ==
    /\ Callable
    /\ get_reason_string_call(input)
    /\ rs_input' = input
    /\ rs_iter' = 0
    /\ rs_reads' = {}
    /\ Called
    /\ UNCHANGED <<last, fileHist, compHist, error_set, recHist, hsHist>>

GetReasonStringLoop ==
    /\ rs_iter < MaxIter
    /\ get_reason_string_loop
    /\ rs_iter' = rs_iter + 1
    /\ rs_reads' = rs_reads \cup loop_reads(Len(rs_input) - Len(preferred_language),
                                            preferred_language)
    /\ Called
    /\ UNCHANGED <<rs_input, last, fileHist, compHist, error_set, recHist, hsHist>>

Destroy ==
    /\ Callable
    /\ destroy
    /\ Called
    /\ UNCHANGED <<last, fileHist, compHist, error_set, rsHist, recHist, hsHist>>

TransactionCreate(ike_sa, request) ==
    /\ tx_pc = "idle"
    /\ transaction_create_call(ike_sa, request)
    /\ UNCHANGED <<last, fileHist, compHist, error_set, rsHist, created_id, fresh,
                   recHist, hsHist>>

Sum(f) ==
    LET RECURSIVE SumOver(_)
        SumOver(S) == IF S = {} THEN 0
                      ELSE LET x == CHOOSE y \in S : TRUE IN f[x] + SumOver(S \ {x})
    IN  SumOver(DOMAIN f)

(***************************************************************************)
(* Spec: a freshly created state object, any calls of its methods, and its *)
(* destruction.                                                            *)
(***************************************************************************)
\* imv_attestation_state_create called with an id of ids under a
\* configuration whose platform_info setting is one of infos
Create(ids, infos) ==
    \E id \in ids : \E info \in infos :
        /\ settings_platform_info = info
        /\ imv_attestation_state_create(id)
        /\ created_id = id

\* the caller's variables and the history before the first call
InitCaller ==
    /\ rs_pc = "idle"
    /\ preferred_language = chunk_empty
    /\ reason_string = chunk_empty
    /\ reason_language = chunk_empty
    /\ rs_return = FALSE
    /\ ret = NoReturn
    /\ last = NoCall
    /\ issued = {}
    /\ checked = {}
    /\ max_issued = 0
    /\ outstanding = {}
    /\ n_file_add = 0
    /\ n_file_off = 0
    /\ n_comp_add = [c \in CompInputs |-> 0]
    /\ n_comp_off = [c \in CompInputs |-> 0]
    /\ error_set = FALSE
    /\ rs_input = chunk_empty
    /\ rs_iter = 0
    /\ rs_reads = {}
    /\ fresh = TRUE
    /\ last_rec = <<TNC_IMV_ACTION_RECOMMENDATION_NO_RECOMMENDATION,
                   TNC_IMV_EVALUATION_RESULT_DONT_KNOW>>
    /\ out_rec = <<"unwritten", "unwritten">>
    /\ out_rec_want = <<"unwritten", "unwritten">>
    /\ last_handshake = IMV_ATTESTATION_STATE_INIT
    /\ out_handshake = "unwritten"
    /\ out_handshake_want = "unwritten"
    /\ tx_pc = "idle"
    /\ tx_request = NoMessage
    /\ tx_result = NoResult

Init == Create(ConnectionIds, {NULL}) /\ InitCaller

Next ==
    \/ \E s \in ConnectionStates : ChangeState(s)
    \/ \E r \in Recommendations : SetRecommendation(r[1], r[2])
    \/ \E h \in HandshakeStates : SetHandshakeState(h)
    \/ SetMeasurementError
    \/ \E f \in FileInputs : n_file_add < MaxFileAdds /\ AddFileMeasRequest(f[1], f[2])
    \/ \E id \in ObsIds : CheckOffFileMeasRequest(id)
    \/ \E c \in CompInputs : Sum(n_comp_add) < MaxCompAdds /\ AddCompEvidRequest(c)
    \/ \E c \in CompInputs : CheckOffCompEvidRequest(c)
    \/ Destroy

Spec == Init /\ [][Next]_vars

(***************************************************************************)
(* SpecCreate: the constructor called with any of several connection ids   *)
(* under any of several configurations (no platform_info setting, an empty *)
(* one, a name), followed by calls of the setters, at most MaxCreateAdds   *)
(* requests per registry, and destroy.                                     *)
(***************************************************************************)
CreateIds == {1, 2}
PlatformInfos == {NULL, "", "Fedora 15 x86_64"}

InitCreate == Create(CreateIds, PlatformInfos) /\ InitCaller

NextCreate ==
    \/ \E s \in ConnectionStates : ChangeState(s)
    \/ \E r \in Recommendations : SetRecommendation(r[1], r[2])
    \/ \E h \in HandshakeStates : SetHandshakeState(h)
    \/ SetMeasurementError
    \/ \E f \in FileInputs : n_file_add < MaxCreateAdds /\ AddFileMeasRequest(f[1], f[2])
    \/ \E c \in CompInputs : Sum(n_comp_add) < MaxCreateAdds /\ AddCompEvidRequest(c)
    \/ Destroy

SpecCreate == InitCreate /\ [][NextCreate]_vars

(***************************************************************************)
(* SpecFrame: the setters, the two registries and get_reason_string on one *)
(* object, with at most MaxFrameAdds requests per registry.                *)
(***************************************************************************)
FrameLangs == { <<"f", "r", ",", "d", "e">> }

NextFrame ==
    \/ \E s \in ConnectionStates : ChangeState(s)
    \/ \E r \in Recommendations : SetRecommendation(r[1], r[2])
    \/ \E h \in HandshakeStates : SetHandshakeState(h)
    \/ SetMeasurementError
    \/ \E f \in FileInputs : n_file_add < MaxFrameAdds /\ AddFileMeasRequest(f[1], f[2])
    \/ \E id \in 0 .. MaxFrameAdds : CheckOffFileMeasRequest(id)
    \/ \E c \in CompInputs : Sum(n_comp_add) < MaxFrameAdds /\ AddCompEvidRequest(c)
    \/ \E c \in CompInputs : CheckOffCompEvidRequest(c)
    \/ \E input \in FrameLangs : GetReasonStringCall(input)
    \/ GetReasonStringLoop

SpecFrame == Init /\ [][NextFrame]_vars

(***************************************************************************)
(* SpecGetters: the setters and the two registries as in SpecFrame, with   *)
(* the getters of the recommendation and of the handshake state, whose     *)
(* results the caller keeps.                                               *)
(***************************************************************************)
NextGetters ==
    \/ \E s \in ConnectionStates : ChangeState(s)
    \/ GetRecommendation
    \/ \E r \in Recommendations : SetRecommendation(r[1], r[2])
    \/ GetHandshakeState
    \/ \E h \in HandshakeStates : SetHandshakeState(h)
    \/ SetMeasurementError
    \/ \E f \in FileInputs : n_file_add < MaxFrameAdds /\ AddFileMeasRequest(f[1], f[2])
    \/ \E id \in 0 .. MaxFrameAdds : CheckOffFileMeasRequest(id)
    \/ \E c \in CompInputs : Sum(n_comp_add) < MaxFrameAdds /\ AddCompEvidRequest(c)
    \/ \E c \in CompInputs : CheckOffCompEvidRequest(c)

SpecGetters == Init /\ [][NextGetters]_vars

(***************************************************************************)
(* SpecWrap: the file measurement registry driven past the range of its    *)
(* 16-bit counter.  The driver keeps at most MaxPendingWrap requests       *)
(* pending, lets only requests with an id in WrapKeepIds stay pending      *)
(* across a further add, and checks off ids of pending requests.           *)
(***************************************************************************)
WrapKeepIds == {0, 1}

NextWrap ==
    \/ \E f \in FileInputs :
          /\ n_file_add < WrapAdds
          /\ Len(file_meas_requests) < MaxPendingWrap
          /\ \A k \in 1 .. Len(file_meas_requests) : file_meas_requests[k].id \in WrapKeepIds
          /\ AddFileMeasRequest(f[1], f[2])
    \/ \E k \in 1 .. Len(file_meas_requests) :
          CheckOffFileMeasRequest(file_meas_requests[k].id)

SpecWrap == Init /\ [][NextWrap]_vars

(***************************************************************************)
(* SpecOrder: both registries with entries that match the same check-off.  *)
(* The file measurement registry is driven past the range of its counter   *)
(* as in SpecWrap, which is the only way to two pending requests with one  *)
(* id; on the way there every request is for the same file.  Once the      *)
(* counter has wrapped the driver asks for either file, keeps up to        *)
(* MaxPendingOrder file requests pending, also checks off an id that no    *)
(* pending request has, and uses the component registry with up to         *)
(* MaxOrderCompAdds requests.                                              *)
(***************************************************************************)
\* add_file_meas_request has been called often enough for the counter to wrap
Wrapped == n_file_add >= UINT16_RANGE

NextOrder ==
    \/ \E f \in (IF Wrapped THEN FileInputs ELSE {<<42, TRUE>>}) :
          /\ n_file_add < WrapAdds
          /\ Len(file_meas_requests) < (IF Wrapped THEN MaxPendingOrder ELSE MaxPendingWrap)
          /\ \A k \in 1 .. Len(file_meas_requests) : file_meas_requests[k].id \in WrapKeepIds
          /\ AddFileMeasRequest(f[1], f[2])
    \/ \E k \in 1 .. Len(file_meas_requests) :
          CheckOffFileMeasRequest(file_meas_requests[k].id)
    \/ Wrapped /\ CheckOffFileMeasRequest(MaxFileAdds + 1)
    \/ \E c \in CompInputs :
          Wrapped /\ Sum(n_comp_add) < MaxOrderCompAdds /\ AddCompEvidRequest(c)
    \/ \E c \in CompInputs : Wrapped /\ CheckOffCompEvidRequest(c)

SpecOrder == Init /\ [][NextOrder]_vars

(***************************************************************************)
(* SpecReason: get_reason_string called with every preferred-language      *)
(* string of the bounded input set: the lists of the examples, and every   *)
(* string of letters of the tags, blanks and commas up to MaxLangLen.      *)
(***************************************************************************)
Alphabet == {"d", "e", "n", " ", ","}

ExampleLangs ==
    { <<"f", "r">>,
      <<"f", "r", ",">>,
      <<"f", "r", ",", " ", "d", "e">>,
      <<"d", "e", ",", " ", "e", "n">>,
      <<"f", "r", ",", ",", "d", "e">>,
      <<" ", ",", " ", "d", "e">>,
      <<"D", "E", ",", "m", "n">>,
      <<"m", "n", ",", "d", "e">>,
      <<" ", " ", "d", "e", " ", " ", ",", " ", "e", "n">> }

LangInputs == ExampleLangs \cup UNION { [1 .. n -> Alphabet] : n \in 0 .. MaxLangLen }

NextReason ==
    \/ rs_pc = "idle" /\ \E input \in LangInputs : GetReasonStringCall(input)
    \/ GetReasonStringLoop

SpecReason == Init /\ [][NextReason]_vars

(***************************************************************************)
(* SpecPadding: get_reason_string called with lists padded with blanks and *)
(* tabs: the padded examples, and every string of the letters of "de",     *)
(* blanks, tabs and commas up to MaxPadLen.                                *)
(***************************************************************************)
PaddingAlphabet == {"d", "e", " ", TAB, ","}

PaddedExamples ==
    { <<" ", " ", "d", "e", " ", " ", ",", " ", "e", "n">>,
      <<"d", "e", TAB, ",", " ", "e", "n">>,
      <<TAB, "d", "e", ",", "e", "n">> }

PaddedLangs == PaddedExamples \cup UNION { [1 .. n -> PaddingAlphabet] : n \in 0 .. MaxPadLen }

NextPadding ==
    \/ rs_pc = "idle" /\ \E input \in PaddedLangs : GetReasonStringCall(input)
    \/ GetReasonStringLoop

SpecPadding == Init /\ [][NextPadding]_vars

(***************************************************************************)
(* SpecTransaction: transaction_create called with every message of the    *)
(* bounded set: requests and responses of every exchange type, with up to  *)
(* MaxPayloads payloads.                                                   *)
(***************************************************************************)
PayloadKinds ==
    { [type |-> DELETE, protocol_id |-> PROTO_IKE, notify_type |-> "NONE"],
      [type |-> DELETE, protocol_id |-> PROTO_ESP, notify_type |-> "NONE"],
      [type |-> NOTIFY, protocol_id |-> PROTO_ESP, notify_type |-> REKEY_SA],
      [type |-> NOTIFY, protocol_id |-> PROTO_IKE, notify_type |-> "NO_PROPOSAL_CHOSEN"],
      [type |-> "SECURITY_ASSOCIATION", protocol_id |-> "PROTO_NONE", notify_type |-> "NONE"] }

ExchangeTypes == {IKE_SA_INIT, IKE_AUTH, CREATE_CHILD_SA, INFORMATIONAL,
                  "EXCHANGE_TYPE_UNDEFINED"}

MessageIds == {0, 1}

Messages ==
    [request : BOOLEAN, exchange_type : ExchangeTypes, message_id : MessageIds,
     payloads : UNION { [1 .. n -> PayloadKinds] : n \in 0 .. MaxPayloads }]

NextTransaction ==
    \E request \in Messages : TransactionCreate("ike_sa", request)

SpecTransaction == Init /\ [][NextTransaction]_vars

(***************************************************************************)
(* Properties of the file measurement request registry.                    *)
(***************************************************************************)
\* C1: every id returned by add_file_meas_request is non-zero, differs from
\* every id returned before it and is strictly greater than each of them,
\* for call sequences of any length and with check-offs interleaved.
C1_IdsNonZeroIncreasing ==
    last.op = "add_file_meas_request" =>
        /\ ret.id # 0
        /\ ret.id \notin last.pre_issued
        /\ ret.id > last.pre_max_issued

\* C5: check_off_file_meas_request(id) with an id that add_file_meas_request
\* never returned, or whose request has been checked off before, returns
\* not-found and leaves the pending entries and their count as they were.
C5_UnknownIdNotFound ==
    ( /\ last.op = "check_off_file_meas_request"
      /\ last.id \in ObsIds
      /\ (last.id \notin last.pre_issued \/ last.id \in last.pre_checked) )
    => /\ ~ret.found
       /\ file_meas_requests = last.pre_file_requests
       /\ get_file_meas_request_count = get_count(last.pre_file_requests)

\* C6: when add_file_meas_request(file_id, is_dir) returned k and that request
\* is not yet checked off, check_off_file_meas_request(k) returns found with
\* that call's file_id and is_dir, and the pending count drops by one.
C6_CheckOffReturnsRequest ==
    last.op = "check_off_file_meas_request" =>
        \A r \in last.pre_outstanding :
            r.id = last.id =>
                /\ ret.found
                /\ ret.file_id = r.file_id
                /\ ret.is_dir = r.is_dir
                /\ get_file_meas_request_count = get_count(last.pre_file_requests) - 1

\* C7: no two entries pending in the file measurement request list carry the
\* same id.
C7_PendingIdsDistinct ==
    \A i, j \in 1 .. Len(file_meas_requests) :
        i # j => file_meas_requests[i].id # file_meas_requests[j].id

(***************************************************************************)
(* Properties of the component evidence registry and of the counts.        *)
(***************************************************************************)
\* positions of the pending component evidence entries equal to comp
CompPending(comp) == {k \in 1 .. Len(comp_evid_requests) : comp_evid_requests[k] = comp}

\* C8: a tuple added n times and checked off successfully m times (m <= n) is
\* pending n - m times, and check_off_comp_evid_request of it returns true
\* iff m < n before the call: each added entry is matched exactly once.
C8_CompMatchedOnce ==
    /\ \A c \in CompInputs :
          /\ n_comp_off[c] <= n_comp_add[c]
          /\ Cardinality(CompPending(c)) = n_comp_add[c] - n_comp_off[c]
    /\ last.op = "check_off_comp_evid_request" =>
          (ret.found <=> last.pre_n_comp_off < last.pre_n_comp_add)

\* a tuple added twice, checked off twice with success, and a third check-off
\* that returned false
C8_Witness ==
    /\ last.op = "check_off_comp_evid_request"
    /\ ~ret.found
    /\ n_comp_add[last.comp] = 2
    /\ n_comp_off[last.comp] = 2

\* C9: for each registry the count operation equals the number of add calls
\* minus the number of check_off calls that returned found.
C9_CountsBalance ==
    /\ get_file_meas_request_count = n_file_add - n_file_off
    /\ get_comp_evid_request_count = Sum(n_comp_add) - Sum(n_comp_off)

\* both registries after adds and a successful check-off each, a failed
\* check-off last, and the scalar fields all changed
C9_Witness ==
    /\ n_file_add = 2 /\ n_file_off = 1
    /\ Sum(n_comp_add) = 2 /\ Sum(n_comp_off) = 1
    /\ last.op \in {"check_off_file_meas_request", "check_off_comp_evid_request"}
    /\ ~ret.found
    /\ measurement_error
    /\ state # TNC_CONNECTION_STATE_CREATE
    /\ handshake_state # IMV_ATTESTATION_STATE_INIT

(***************************************************************************)
(* Measurement error flag.                                                 *)
(***************************************************************************)
\* C10: the measurement error flag is false until set_measurement_error is
\* called and true in every state after a call of it, whatever is called
\* afterwards.
C10_ErrorMonotonic == get_measurement_error = error_set

\* the flag set, with registry calls made and every other field changed
C10_Witness ==
    /\ error_set
    /\ get_measurement_error
    /\ n_file_add = MaxFileAdds /\ n_file_off >= 1
    /\ Sum(n_comp_off) >= 1
    /\ state # TNC_CONNECTION_STATE_CREATE
    /\ handshake_state # IMV_ATTESTATION_STATE_INIT
    /\ rec # TNC_IMV_ACTION_RECOMMENDATION_NO_RECOMMENDATION

(***************************************************************************)
(* Properties of get_reason_string.  The tokens of a preferred-language    *)
(* list are its comma-separated parts without the blanks around them.      *)
(***************************************************************************)
RECURSIVE SplitCommas(_)
SplitCommas(s) ==
    IF \E k \in 1 .. Len(s) : s[k] = ","
    THEN LET c == CHOOSE k \in 1 .. Len(s) : s[k] = "," /\ \A j \in 1 .. (k - 1) : s[j] # ","
         IN  <<SubSeq(s, 1, c - 1)>> \o SplitCommas(SubSeq(s, c + 1, Len(s)))
    ELSE <<s>>

RECURSIVE StripBlanks(_)
StripBlanks(s) ==
    IF Len(s) > 0 /\ Head(s) = " " THEN StripBlanks(Tail(s))
    ELSE IF Len(s) > 0 /\ s[Len(s)] = " " THEN StripBlanks(SubSeq(s, 1, Len(s) - 1))
    ELSE s

Tokens(s) == LET parts == SplitCommas(s) IN [k \in 1 .. Len(parts) |-> StripBlanks(parts[k])]

Tags == {reasons[i].lang : i \in 1 .. Len(reasons)}

\* positions of the tokens of s that equal a tag of the table
Matching(s) == {k \in 1 .. Len(Tokens(s)) : Tokens(s)[k] \in Tags}

EarliestMatch(s) == CHOOSE k \in Matching(s) : \A j \in Matching(s) : k <= j

\* the call has returned TRUE with entry i of the table
Returned(i) ==
    /\ rs_pc = "return"
    /\ rs_return
    /\ reason_language = reasons[i].lang
    /\ reason_string = reasons[i].string

\* C2: get_reason_string terminates for every preferred-language string (a
\* scan consumes a character in each pass, so it makes at most as many passes
\* as the string has characters, and one more test of the loop condition)
\* and on return reports success with the string and tag of one table entry.
C2_TerminatesWithTableEntry ==
    /\ rs_pc = "loop" => rs_iter <= Len(rs_input)
    /\ rs_pc = "return" => \E i \in 1 .. Len(reasons) : Returned(i)

\* C3: when no token of the list equals a tag of the table, the call
\* returns the first table entry: it is either still scanning a token of
\* the list or has returned that entry.
C3_NoMatchReturnsDefault ==
    (rs_pc # "idle" /\ Matching(rs_input) = {}) =>
        \/ Returned(1)
        \/ rs_pc = "loop" /\ rs_iter <= Len(Tokens(rs_input))

\* C4: when a token of the list equals a tag, the call returns the entry of
\* the earliest such token in the order of the list, whatever the position
\* of that entry in the table; tokens are compared exactly.
C4_EarliestMatchWins ==
    (rs_pc # "idle" /\ Matching(rs_input) # {}) =>
        \/ /\ rs_pc = "loop"
           /\ rs_iter < EarliestMatch(rs_input)
        \/ /\ rs_pc = "return"
           /\ rs_return
           /\ reason_language = Tokens(rs_input)[EarliestMatch(rs_input)]
           /\ \E i \in 1 .. Len(reasons) : Returned(i)

\* "de, en" has returned the "de" entry, the third of the table, although
\* "en" is in the list and first in the table
C4_Witness ==
    /\ rs_input = <<"d", "e", ",", " ", "e", "n">>
    /\ Returned(3)

\* positions of the tokens of s that are empty once the blanks around them
\* are removed: nothing or only blanks between two commas, before the
\* first or after the last comma
EmptyTokens(s) == {k \in 1 .. Len(Tokens(s)) : Tokens(s)[k] = << >>}

\* C18: an empty token, a token of blanks and a trailing comma do not match
\* and do not stop the scan.  For a list with such a token: as long as the
\* scan has not reached the last part of the list, what is left to scan are
\* the parts after those scanned; a later token that equals a tag is
\* returned (", de", " , de" and "fr,,de" return "de"); without a matching
\* token and with an empty last token the default entry is returned ("fr,").
\* No pass of the loop reads a position outside the string it was given.
C18_EmptyTokensSkipped ==
    /\ rs_reads \subseteq 1 .. Len(rs_input)
    /\ (rs_pc # "idle" /\ EmptyTokens(rs_input) # {}) =>
          LET parts == SplitCommas(rs_input)
              n == Len(parts)
          IN  /\ (rs_pc = "loop" /\ rs_iter < n) =>
                     SplitCommas(preferred_language) = SubSeq(parts, rs_iter + 1, n)
              /\ Matching(rs_input) # {} =>
                     \/ rs_pc = "loop" /\ rs_iter < EarliestMatch(rs_input)
                     \/ \E i \in 1 .. Len(reasons) :
                            /\ reasons[i].lang = Tokens(rs_input)[EarliestMatch(rs_input)]
                            /\ Returned(i)
              /\ (Matching(rs_input) = {} /\ n \in EmptyTokens(rs_input)) =>
                     \/ rs_pc = "loop" /\ rs_iter < n
                     \/ Returned(1)

\* "fr,,de" has returned the "de" entry after three passes, the second of
\* them over the empty token
C18_Witness ==
    /\ rs_input = <<"f", "r", ",", ",", "d", "e">>
    /\ rs_iter = 3
    /\ Returned(3)
    /\ rs_reads # {}

\* s without the whitespace (blanks and tabs) at its two ends
RECURSIVE StripWhitespace(_)
StripWhitespace(s) ==
    IF Len(s) > 0 /\ Head(s) \in {" ", TAB} THEN StripWhitespace(Tail(s))
    ELSE IF Len(s) > 0 /\ s[Len(s)] \in {" ", TAB}
         THEN StripWhitespace(SubSeq(s, 1, Len(s) - 1))
    ELSE s

\* the parts joined with commas
RECURSIVE JoinCommas(_)
JoinCommas(parts) ==
    IF Len(parts) = 0 THEN << >>
    ELSE IF Len(parts) = 1 THEN parts[1]
    ELSE parts[1] \o <<",">> \o JoinCommas(Tail(parts))

\* the list s with the whitespace around every token removed
Unpadded(s) ==
    LET parts == SplitCommas(s)
    IN  JoinCommas([k \in 1 .. Len(parts) |-> StripWhitespace(parts[k])])

\* C19: whitespace around the tokens does not affect the result: a call
\* returns the entry that a call with the unpadded list returns, and it
\* does not return only if the call with the unpadded list does not.
C19_PaddingIgnored ==
    LET want == get_reason_string_result(Unpadded(rs_input), MaxIter)
    IN  /\ rs_pc = "return" => want # 0 /\ Returned(want)
        /\ (rs_pc = "loop" /\ rs_iter = MaxIter) => want = 0

(***************************************************************************)
(* Properties of the life cycle of the state object.                       *)
(***************************************************************************)
Range(list) == {list[k] : k \in 1 .. Len(list)}

\* C11: every request structure is released exactly once: no structure is
\* freed twice; while the object exists the structures not yet freed are
\* those of the pending entries of the two lists, so that the entries freed
\* so far are those removed by a check-off that found them; once destroy has
\* run, every structure of both registries has been freed and the PTS object
\* has been destroyed once.
C11_ReleasedOnce ==
    /\ file_heap.invalid_frees = 0
    /\ comp_heap.invalid_frees = 0
    /\ file_heap.allocated = n_file_add
    /\ comp_heap.allocated = Sum(n_comp_add)
    /\ alive => /\ file_heap.live = Range(file_meas_request_ptrs)
                /\ comp_heap.live = Range(comp_evid_request_ptrs)
                /\ Cardinality(file_heap.live) = n_file_add - n_file_off
                /\ Cardinality(comp_heap.live) = Sum(n_comp_add) - Sum(n_comp_off)
                /\ pts.destroyed = 0
    /\ ~alive => /\ file_heap.live = {}
                 /\ comp_heap.live = {}
                 /\ pts.destroyed = 1

\* destroy has run on an object with pending entries in both registries,
\* after entries of both registries had been checked off
C11_Witness ==
    /\ ~alive
    /\ n_file_off >= 1
    /\ n_file_add - n_file_off >= 1
    /\ Sum(n_comp_off) >= 1
    /\ Sum(n_comp_add) - Sum(n_comp_off) >= 1

\* C12: the object returned by the constructor has both registries empty,
\* handshake state INIT, the pair (no recommendation, don't know), no
\* measurement error, the file request counter at 0 and the connection id
\* it was given; the platform info of its PTS object is set exactly when
\* the configuration has a platform_info string, and then to that string.
C12_CreatedState ==
    fresh =>
        /\ alive
        /\ get_file_meas_request_count = 0
        /\ get_comp_evid_request_count = 0
        /\ get_handshake_state = IMV_ATTESTATION_STATE_INIT
        /\ get_recommendation = <<TNC_IMV_ACTION_RECOMMENDATION_NO_RECOMMENDATION,
                                  TNC_IMV_EVALUATION_RESULT_DONT_KNOW>>
        /\ get_measurement_error = FALSE
        /\ file_meas_request_counter = 0
        /\ get_connection_id = created_id
        /\ (pts.platform_info # NULL) <=> (settings_platform_info # NULL)
        /\ settings_platform_info # NULL => pts.platform_info = settings_platform_info
        /\ pts.destroyed = 0

\* a new object for connection 2 under a configuration with an empty
\* platform_info string
C12_Witness ==
    /\ fresh
    /\ created_id = 2
    /\ settings_platform_info = ""
    /\ pts.platform_info = ""

(***************************************************************************)
(* Properties of the order of the registries.                              *)
(***************************************************************************)
\* list without the entry at position i: the entries before i stay where
\* they are, those after i move up by one
WithoutEntry(list, i) ==
    [k \in 1 .. (Len(list) - 1) |-> IF k < i THEN list[k] ELSE list[k + 1]]

\* what a check-off must leave of a list and of the addresses of its
\* entries, matching being the positions of the entries that match
RemovedFirst(matching, pre_list, pre_ptrs, list, ptrs) ==
    IF matching = {}
    THEN /\ ~ret.found
         /\ list = pre_list
         /\ ptrs = pre_ptrs
    ELSE LET first == CHOOSE i \in matching : \A j \in matching : i <= j
         IN  /\ ret.found
             /\ list = WithoutEntry(pre_list, first)
             /\ ptrs = WithoutEntry(pre_ptrs, first)
             /\ \A k \in matching \ {first} : pre_ptrs[k] \in Range(ptrs)

\* C14: a check-off removes at most one entry.  When it matches, the list
\* loses the first matching entry in insertion order and nothing else, the
\* other entries keep their order, and every later matching entry is still
\* pending; when nothing matches the list is left as it was.
C14_RemovesFirstMatch ==
    /\ last.op = "check_off_file_meas_request" =>
           RemovedFirst({k \in 1 .. Len(last.pre_file_requests) :
                             last.pre_file_requests[k].id = last.id},
                        last.pre_file_requests, last.pre_file_ptrs,
                        file_meas_requests, file_meas_request_ptrs)
    /\ last.op = "check_off_comp_evid_request" =>
           RemovedFirst({k \in 1 .. Len(last.pre_comp_requests) :
                             last.pre_comp_requests[k] = last.comp},
                        last.pre_comp_requests, last.pre_comp_ptrs,
                        comp_evid_requests, comp_evid_request_ptrs)

\* a file check-off of id 1 that met three pending requests, the first and
\* the third with id 1 (the third issued after the counter wrapped, for
\* another file): the first is gone, the second and the third are pending in
\* that order; the component registry, after two adds of one tuple, one add
\* of another and a check-off of the first, holds two requests, the tuple
\* that was added twice behind the other
C14_Witness ==
    /\ last.op = "check_off_file_meas_request"
    /\ last.id = 1
    /\ Len(last.pre_file_requests) = 3
    /\ last.pre_file_requests[1].id = 1
    /\ last.pre_file_requests[2].id = 0
    /\ last.pre_file_requests[3].id = 1
    /\ last.pre_file_requests[3].file_id # last.pre_file_requests[1].file_id
    /\ ret.found
    /\ ret.file_id = last.pre_file_requests[1].file_id
    /\ file_meas_request_ptrs = <<last.pre_file_ptrs[2], last.pre_file_ptrs[3]>>
    /\ file_meas_requests = <<last.pre_file_requests[2], last.pre_file_requests[3]>>
    /\ Sum(n_comp_add) = 3
    /\ Sum(n_comp_off) = 1
    /\ Len(comp_evid_requests) = 2
    /\ \E c \in CompInputs :
          n_comp_add[c] = 2 /\ n_comp_off[c] = 1 /\ comp_evid_requests[2] = c

\* C15: check-offs do not touch the counter.  Up to the 65535th call the
\* counter equals the number of add_file_meas_request calls made, whatever
\* check-offs came between them, so that the k-th call returns k (the first
\* returns 1) and no id checked off before is returned again.
C15_KthAddReturnsK ==
    n_file_add <= UINT16_RANGE - 1 =>
        /\ file_meas_request_counter = n_file_add
        /\ last.op = "add_file_meas_request" =>
               /\ ret.id = n_file_add
               /\ ret.id \notin last.pre_checked
        /\ last.op = "check_off_file_meas_request" =>
               \A k \in 1 .. Len(file_meas_requests) : file_meas_requests[k].id <= n_file_add

\* the 65535th add_file_meas_request call has returned 65535, after
\* check-offs
C15_Witness ==
    /\ last.op = "add_file_meas_request"
    /\ n_file_add = UINT16_RANGE - 1
    /\ ret.id = UINT16_RANGE - 1
    /\ n_file_off >= UINT16_RANGE - 3

(***************************************************************************)
(* Properties of the scalar fields.                                        *)
(***************************************************************************)
\* C13: get_recommendation returns the pair of the most recent
\* set_recommendation call, or (no recommendation, don't know) when there
\* has been none: in every state the pair it would return is that pair,
\* whatever other methods have been called since, and the pair written by
\* the last get_recommendation call is the pair that was set when it was
\* called.
C13_RecommendationIsLastSet ==
    /\ get_recommendation = last_rec
    /\ out_rec = out_rec_want

\* get_recommendation has returned a pair that was set, requests have been
\* added and the handshake state changed, and the pair is still in place
C13_Witness ==
    /\ out_rec = <<"TNC_IMV_ACTION_RECOMMENDATION_ALLOW", "TNC_IMV_EVALUATION_RESULT_COMPLIANT">>
    /\ get_recommendation = out_rec
    /\ n_file_add >= 1
    /\ Sum(n_comp_add) >= 1
    /\ handshake_state # IMV_ATTESTATION_STATE_INIT

\* the calls of SpecFrame on the file registry, on the component registry and
\* the steps of get_reason_string
FileRegistryCall ==
    \/ \E f \in FileInputs : AddFileMeasRequest(f[1], f[2])
    \/ \E id \in 0 .. MaxFrameAdds : CheckOffFileMeasRequest(id)

CompRegistryCall ==
    \/ \E c \in CompInputs : AddCompEvidRequest(c)
    \/ \E c \in CompInputs : CheckOffCompEvidRequest(c)

ReasonStringStep ==
    \/ \E input \in FrameLangs : GetReasonStringCall(input)
    \/ GetReasonStringLoop

\* C16: the registries and the scalar fields are independent.  A step that
\* changes the file registry is a call on the file registry and changes
\* neither the component registry nor a scalar field, and likewise for the
\* component registry; a step that changes the connection state, the
\* handshake state, the recommendation pair or the measurement error is a
\* call of the setter of that field and changes no registry and no other
\* field; the steps of get_reason_string change no registry and no field;
\* the connection id stays the one given to the constructor.
C16_Independent ==
    /\ [](connection_id = created_id)
    /\ [][/\ fileVars' # fileVars =>
                FileRegistryCall /\ UNCHANGED <<compVars, scalarVars>>
          /\ compVars' # compVars =>
                CompRegistryCall /\ UNCHANGED <<fileVars, scalarVars>>
          /\ state' # state =>
                /\ \E new_state \in ConnectionStates : ChangeState(new_state)
                /\ UNCHANGED <<fileVars, compVars, connection_id, handshake_state,
                               rec, eval, measurement_error>>
          /\ handshake_state' # handshake_state =>
                /\ \E new_state \in HandshakeStates : SetHandshakeState(new_state)
                /\ UNCHANGED <<fileVars, compVars, connection_id, state,
                               rec, eval, measurement_error>>
          /\ <<rec, eval>>' # <<rec, eval>> =>
                /\ \E r \in Recommendations : SetRecommendation(r[1], r[2])
                /\ UNCHANGED <<fileVars, compVars, connection_id, state,
                               handshake_state, measurement_error>>
          /\ measurement_error' # measurement_error =>
                /\ SetMeasurementError
                /\ UNCHANGED <<fileVars, compVars, connection_id, state,
                               handshake_state, rec, eval>>
          /\ ReasonStringStep => UNCHANGED <<fileVars, compVars, scalarVars>>
          /\ connection_id' = connection_id]_vars

\* both registries have been used, every setter has changed its field and a
\* get_reason_string call has returned
C16_Witness ==
    /\ n_file_add >= 1
    /\ n_file_off >= 1
    /\ Sum(n_comp_add) >= 1
    /\ Len(comp_evid_requests) >= 1
    /\ state # TNC_CONNECTION_STATE_CREATE
    /\ handshake_state # IMV_ATTESTATION_STATE_INIT
    /\ rec # TNC_IMV_ACTION_RECOMMENDATION_NO_RECOMMENDATION
    /\ measurement_error
    /\ rs_pc = "return"
    /\ connection_id = created_id

\* C17: the handshake state starts at INIT and follows set_handshake_state
\* and nothing else: get_handshake_state returns the argument of the most
\* recent set_handshake_state call (INIT when there has been none),
\* whichever state that call was made in, and every step that changes the
\* handshake state is a set_handshake_state call.
C17_HandshakeFollowsSetter ==
    /\ [](/\ get_handshake_state = last_handshake
          /\ out_handshake = out_handshake_want
          /\ fresh => get_handshake_state = IMV_ATTESTATION_STATE_INIT)
    /\ [][handshake_state' # handshake_state =>
              \E p \in HandshakeStates : SetHandshakeState(p)]_vars

\* get_handshake_state has returned a state other than INIT and the state
\* has since been set back to INIT
C17_Witness ==
    /\ out_handshake # "unwritten"
    /\ out_handshake # IMV_ATTESTATION_STATE_INIT
    /\ get_handshake_state = IMV_ATTESTATION_STATE_INIT
    /\ last_handshake = IMV_ATTESTATION_STATE_INIT

(***************************************************************************)
(* Properties of transaction_create.                                       *)
(***************************************************************************)
\* positions of the DELETE payloads for the IKE protocol in a message
IkeDeletes(request) ==
    {k \in 1 .. Len(request.payloads) :
        /\ request.payloads[k].type = DELETE
        /\ request.payloads[k].protocol_id = PROTO_IKE}

\* C20: transaction_create returns no transaction for a message that is not
\* a request.  For an INFORMATIONAL request it returns a dead peer
\* detection transaction exactly when the message has no payload, a
\* delete-IKE_SA transaction exactly when a payload is a DELETE payload for
\* the IKE protocol, the scan stopping at the first such payload, and no
\* transaction otherwise.  For an IKE_SA_INIT request it returns an
\* ike_sa_init transaction; for IKE_AUTH, CREATE_CHILD_SA and unknown
\* exchange types none.  A transaction carries the IKE_SA and the message id
\* of the request, and every payload iterator created is destroyed.
C20_TransactionForRequest ==
    tx_pc = "returned" =>
        LET kind == tx_result.transaction.kind
            deletes == IkeDeletes(tx_request)
        IN  /\ ~tx_request.request => kind = "NULL"
            /\ (tx_request.request /\ tx_request.exchange_type = INFORMATIONAL) =>
                   /\ kind = "dead_peer_detection" <=> Len(tx_request.payloads) = 0
                   /\ kind = "delete_ike_sa" <=> deletes # {}
                   /\ deletes # {} =>
                          /\ tx_result.visited \in deletes
                          /\ \A k \in deletes : tx_result.visited <= k
                   /\ kind \in {"dead_peer_detection", "delete_ike_sa", "NULL"}
            /\ (tx_request.request /\ tx_request.exchange_type = IKE_SA_INIT) =>
                   kind = "ike_sa_init"
            /\ (tx_request.request /\
                   tx_request.exchange_type \notin {INFORMATIONAL, IKE_SA_INIT}) =>
                   kind = "NULL"
            /\ kind # "NULL" =>
                   /\ tx_result.transaction.message_id = tx_request.message_id
                   /\ tx_result.transaction.ike_sa = "ike_sa"
            /\ tx_result.iterators_created = tx_result.iterators_destroyed

\* an INFORMATIONAL request whose second payload is the first DELETE payload
\* for the IKE protocol, after a DELETE payload for ESP: the scan stopped at
\* the second payload with a delete-IKE_SA transaction
C20_Witness ==
    /\ tx_pc = "returned"
    /\ tx_request.request
    /\ tx_request.exchange_type = INFORMATIONAL
    /\ Len(tx_request.payloads) = 2
    /\ tx_request.payloads[1].type = DELETE
    /\ tx_request.payloads[1].protocol_id = PROTO_ESP
    /\ IkeDeletes(tx_request) = {2}
    /\ tx_result.transaction.kind = "delete_ike_sa"
    /\ tx_result.visited = 2
    /\ tx_result.iterators_destroyed = 1

====
